---- MODULE Spec2Model ----
(***************************************************************************)
(* InkChatGPT (src/app.py): a Streamlit script that is re-run from top to  *)
(* bottom on every user interaction.  One run reads the sidebar key, the   *)
(* file uploader and the chat input, processes the uploaded file           *)
(* (write -> pick loader -> load -> split -> embed/store -> chain) and     *)
(* answers the prompt (crc.run, then a streaming llm.invoke).              *)
(*                                                                         *)
(* Strings whose characters matter (the key, file names, streamed tokens)  *)
(* are sequences.  A file name is a sequence of pieces "a", "txt", "pdf",  *)
(* "docx", "PDF", "." and "/": the pieces are a prefix code, so piecewise  *)
(* equality is string equality, and splitext only looks at "." and "/".    *)
(* The results of the delegated library calls (documents, chunks, vector   *)
(* store, chain, responses) are records of what the call received.         *)
(***************************************************************************)
EXTENDS Integers, Sequences, FiniteSets, TLC

VARIABLES
    session_state,   \* st.session_state: function from the keys present to values
    openai_api_key,  \* sidebar text input of this run (line 17)
    uploaded_file,   \* st.file_uploader value of this run: a name or NoFile (line 91)
    prompt,          \* st.chat_input value of this run: a question or NoPrompt (line 115)
    pc,              \* position of the script run
    exc,             \* the call that raised the uncaught exception, or NoExc
    calls,           \* the calls completed in this run, in order
    ui,              \* what this run has rendered, in order
    file_name,       \* locals of load_and_process_file
    extension,
    loader,
    documents,
    chunks,
    vector_store,
    response,        \* local of handle_question (lines 136 and 155)
    session_before,  \* st.session_state as it was when this run started
    text,            \* StreamHandler.text
    container,       \* what StreamHandler.container has rendered, in order
    initial_text,    \* StreamHandler's constructor argument
    tokens           \* the tokens on_llm_new_token received, in order

vars == <<session_state, openai_api_key, uploaded_file, prompt, pc, exc,
          calls, ui, file_name, extension, loader, documents, chunks,
          vector_store, response, session_before,
          text, container, initial_text, tokens>>

appVars == <<session_state, openai_api_key, uploaded_file, prompt, pc, exc,
             calls, ui, file_name, extension, loader, documents, chunks,
             vector_store, response, session_before>>

streamVars == <<text, container, initial_text, tokens>>

----------------------------------------------------------------------------
(* Bounds *)

MaxHistory == 2

MaxTokens == 3

(* Program constants *)

chunk_size == 1000

chunk_overlap == 200

temperature == 0

----------------------------------------------------------------------------
(* Values *)

\* Python's None where a record is expected (documents, chunks, stores, responses)
None == [by |-> "None"]

\* the loader variable before a loader is chosen
NoLoader == "NoLoader"

\* no file in the uploader
NoFile == <<>>

NoPrompt == "NoPrompt"

NoExc == "NoExc"

Str_sk == <<"s", "k", "-">>

Keys == { <<>>, <<"s", "k", "-", "a">>, <<"a", "s", "k", "-">> }

FileNames == { <<"a", ".", "txt">>, <<"a", ".", "pdf">>, <<"a", ".", "docx">>,
               <<"a", ".", "PDF">>, <<".", "txt">>, <<"a">> }

Questions == { "q1", "q2" }

TokenSet == { <<>>, <<"a">>, <<"b">>, <<"a", "b">> }

InitialTexts == { <<>>, <<"a">> }

Ext_pdf == <<".", "pdf">>

Ext_docx == <<".", "docx">>

Ext_txt == <<".", "txt">>

\* a literal or user-typed text, as opposed to a value a delegated call returned
Text(s) == [by |-> "text", text |-> s]

ChatMessage(role, content) == [role |-> role, content |-> content]

Greeting == ChatMessage("assistant", Text("How can I help you?"))

\* what st.info, st.write, st.success and st.chat_message(role).write render
Shown(how, content) == [role |-> how, content |-> content]

KeyInfo == Shown("st.info", Text("Please add your OpenAI API key to continue."))

NotSupported == Shown("st.write", Text("This document format is not supported!"))

Success == Shown("st.success", Text("File processed successfully!"))

----------------------------------------------------------------------------
(* Library functions the script calls, by what they do *)

\* str.startswith
StartsWith(s, p) == /\ Len(s) >= Len(p)
                    /\ SubSeq(s, 1, Len(p)) = p

\* str.rfind of a one-character string, 1-based, 0 when absent
RFind(p, c) == IF \E i \in 1..Len(p) : p[i] = c
               THEN CHOOSE i \in 1..Len(p) :
                        /\ p[i] = c
                        /\ \A j \in (i+1)..Len(p) : p[j] # c
               ELSE 0

\* os.path.join(a, b) on POSIX
Join(a, b) == IF Len(b) > 0 /\ b[1] = "/" THEN b
              ELSE IF a = <<>> \/ a[Len(a)] = "/" THEN a \o b
              ELSE a \o <<"/">> \o b

\* os.path.splitext: the extension starts at the last dot of the last path
\* component, unless that component has only dots before it
splitext(p) ==
    LET sepIndex == RFind(p, "/")
        dotIndex == RFind(p, ".")
    IN IF /\ dotIndex > sepIndex
          /\ \E i \in (sepIndex+1)..(dotIndex-1) : p[i] # "."
       THEN <<SubSeq(p, 1, dotIndex-1), SubSeq(p, dotIndex, Len(p))>>
       ELSE <<p, <<>>>>

\* 'key in st.session_state'
Has(key) == key \in DOMAIN session_state

\* st.session_state[key] = value
SetItem(s, key, value) ==
    [k \in DOMAIN s \cup {key} |-> IF k = key THEN value ELSE s[k]]

\* del st.session_state[key]
DelItem(s, key) == [k \in DOMAIN s \ {key} |-> s[k]]

\* lines 174-179: clear_history, which nothing in the script calls
clear_history(s) == IF "history" \in DOMAIN s THEN DelItem(s, "history") ELSE s

----------------------------------------------------------------------------
(* load_and_process_file and initialize_chat_model, step by step *)

\* a buggy variant: the text loader is the default of the else branch
LoaderFor_Default(ext) ==
    IF ext = Ext_pdf THEN "PyPDFLoader"
    ELSE IF ext = Ext_docx THEN "Docx2txtLoader"
    ELSE "TextLoader"

\* lines 45-53: the loader chosen for an extension, none in the else branch
LoaderFor(ext) ==
    IF ext = Ext_pdf THEN "PyPDFLoader"
    ELSE IF ext = Ext_docx THEN "Docx2txtLoader"
    ELSE IF ext = Ext_txt THEN "TextLoader"
    ELSE NoLoader

\* line 55: loader.load()
LoadDocuments(l, f) == [loader |-> l, file_name |-> f]

\* lines 57-61
SplitDocuments(docs) ==
    [documents |-> docs, chunk_size |-> chunk_size, chunk_overlap |-> chunk_overlap]

\* lines 63-64
FromDocuments(ch, key) == [chunks |-> ch, openai_api_key |-> key]

\* lines 74-80
initialize_chat_model(vs, key) ==
    [llm |-> [model |-> "gpt-3.5-turbo", temperature |-> temperature,
              openai_api_key |-> key],
     retriever |-> vs]

\* line 136: what crc.run returns for the inputs it received
CrcRun(crc, question, chat_history) ==
    [by |-> "crc", crc |-> crc, question |-> question, chat_history |-> chat_history]

\* line 155: what llm.invoke returns for the messages it received
LlmInvoke(key, msgs) ==
    [by |-> "llm", openai_api_key |-> key, messages |-> msgs]

----------------------------------------------------------------------------
Init ==
    /\ session_state = <<>>
    /\ openai_api_key = <<>>
    /\ uploaded_file = NoFile
    /\ prompt = NoPrompt
    /\ pc = "idle"
    /\ exc = NoExc
    /\ calls = <<>>
    /\ ui = <<>>
    /\ file_name = <<>>
    /\ extension = <<>>
    /\ loader = NoLoader
    /\ documents = None
    /\ chunks = None
    /\ vector_store = None
    /\ response = None
    /\ session_before = <<>>
    /\ text = <<>>
    /\ container = <<>>
    /\ initial_text = <<>>
    /\ tokens = <<>>

HistoryLen == IF Has("history") THEN Len(session_state["history"]) ELSE 0

\* lines 14-20 and 88-95: a new run of the script with this run's widget values
Rerun ==
    /\ pc \in {"idle", "done", "raised"}
    /\ \E key \in Keys, file \in FileNames \cup {NoFile},
          p \in Questions \cup {NoPrompt} :
        /\ p # NoPrompt => HistoryLen < MaxHistory
        /\ openai_api_key' = key
        /\ uploaded_file' = file
        /\ prompt' = p
        /\ ui' = IF key = <<>> THEN <<KeyInfo>> ELSE <<>>
        /\ pc' = IF file # NoFile /\ StartsWith(key, Str_sk)
                 THEN "write" ELSE "check_crc"
    /\ exc' = NoExc
    /\ calls' = <<>>
    /\ file_name' = <<>>
    /\ extension' = <<>>
    /\ loader' = NoLoader
    /\ documents' = None
    /\ chunks' = None
    /\ vector_store' = None
    /\ response' = None
    /\ session_before' = session_state
    /\ UNCHANGED session_state
    /\ UNCHANGED streamVars

\* a buggy variant: the extension is never looked at, the file goes straight
\* to the loading step
WriteFile_SkipPick ==
    /\ pc = "write"
    /\ file_name' = Join(<<".", "/">>, uploaded_file)
    /\ calls' = Append(calls, "write")
    /\ pc' = "load"
    /\ UNCHANGED <<session_state, openai_api_key, uploaded_file, prompt, exc, ui,
                   extension, loader, documents, chunks, vector_store, response,
                   session_before>>
    /\ UNCHANGED streamVars

\* lines 38-40: the uploaded bytes are written to ./<name>.  Files are told
\* apart by name; the loader at line 55 reads the copy this run has written.
WriteFile ==
    /\ pc = "write"
    /\ file_name' = Join(<<".", "/">>, uploaded_file)
    /\ calls' = Append(calls, "write")
    /\ pc' = "pick"
    /\ UNCHANGED <<session_state, openai_api_key, uploaded_file, prompt, exc, ui,
                   extension, loader, documents, chunks, vector_store, response,
                   session_before>>
    /\ UNCHANGED streamVars

\* lines 42-53: the extension, the loader, and the else branch that returns None
\* (main's 'if vector_store' at line 102 is then false)
PickLoader ==
    /\ pc = "pick"
    /\ extension' = splitext(file_name)[2]
    /\ loader' = LoaderFor(extension')
    /\ calls' = Append(calls, "pick")
    /\ IF loader' = NoLoader
       THEN /\ ui' = Append(ui, NotSupported)
            /\ pc' = "check_crc"
       ELSE /\ ui' = ui
            /\ pc' = "load"
    /\ UNCHANGED <<session_state, openai_api_key, uploaded_file, prompt, exc,
                   file_name, documents, chunks, vector_store, response,
                   session_before>>
    /\ UNCHANGED streamVars

\* line 55
Load ==
    /\ pc = "load"
    /\ documents' = LoadDocuments(loader, file_name)
    /\ calls' = Append(calls, "load")
    /\ pc' = "split"
    /\ UNCHANGED <<session_state, openai_api_key, uploaded_file, prompt, exc,
                   ui, file_name, extension, loader, chunks, vector_store, response,
                   session_before>>
    /\ UNCHANGED streamVars

\* a buggy variant: the old chain is dropped from session state before the
\* new file's chunks are sent to the embedding API
Split_DropChain ==
    /\ pc = "split"
    /\ chunks' = SplitDocuments(documents)
    /\ calls' = Append(calls, "split")
    /\ pc' = "embed"
    /\ session_state' = DelItem(session_state, "crc")
    /\ UNCHANGED <<openai_api_key, uploaded_file, prompt, exc,
                   ui, file_name, extension, loader, documents, vector_store,
                   response, session_before>>
    /\ UNCHANGED streamVars

\* lines 57-61
Split ==
    /\ pc = "split"
    /\ chunks' = SplitDocuments(documents)
    /\ calls' = Append(calls, "split")
    /\ pc' = "embed"
    /\ UNCHANGED <<session_state, openai_api_key, uploaded_file, prompt, exc,
                   ui, file_name, extension, loader, documents, vector_store,
                   response, session_before>>
    /\ UNCHANGED streamVars

\* lines 63-66: the embedding calls and the vector store built from them
EmbedStore ==
    /\ pc = "embed"
    /\ vector_store' = FromDocuments(chunks, openai_api_key)
    /\ calls' = Append(calls, "embed")
    /\ pc' = "init_chat"
    /\ UNCHANGED <<session_state, openai_api_key, uploaded_file, prompt, exc,
                   ui, file_name, extension, loader, documents, chunks, response,
                   session_before>>
    /\ UNCHANGED streamVars

\* a buggy variant: the chain is built and the success message shown, but
\* the chain is not put in session state
InitChat_NoStore ==
    /\ pc = "init_chat"
    /\ vector_store # None
    /\ calls' = Append(calls, "chain")
    /\ ui' = Append(ui, Success)
    /\ pc' = "check_crc"
    /\ UNCHANGED <<session_state, openai_api_key, uploaded_file, prompt, exc,
                   file_name, extension, loader, documents, chunks, vector_store,
                   response, session_before>>
    /\ UNCHANGED streamVars

\* a buggy variant: a new chain starts with a cleared history
InitChat_ClearHistory ==
    /\ pc = "init_chat"
    /\ vector_store # None
    /\ session_state' = SetItem(clear_history(session_state), "crc",
                                initialize_chat_model(vector_store, openai_api_key))
    /\ calls' = Append(calls, "chain")
    /\ ui' = Append(ui, Success)
    /\ pc' = "check_crc"
    /\ UNCHANGED <<openai_api_key, uploaded_file, prompt, exc,
                   file_name, extension, loader, documents, chunks, vector_store,
                   response, session_before>>
    /\ UNCHANGED streamVars

\* lines 102-108: 'if vector_store' is taken for a store that holds the chunks
\* of a document, which is true
InitChat ==
    /\ pc = "init_chat"
    /\ vector_store # None
    /\ session_state' = SetItem(session_state, "crc",
                                initialize_chat_model(vector_store, openai_api_key))
    /\ calls' = Append(calls, "chain")
    /\ ui' = Append(ui, Success)
    /\ pc' = "check_crc"
    /\ UNCHANGED <<openai_api_key, uploaded_file, prompt, exc,
                   file_name, extension, loader, documents, chunks, vector_store,
                   response, session_before>>
    /\ UNCHANGED streamVars

\* a buggy variant: messages is only initialised when absent, as in the usual
\* 'if "messages" not in st.session_state' idiom
CheckCrc_KeepMessages ==
    /\ pc = "check_crc"
    /\ IF Has("crc")
       THEN LET msgs == IF Has("messages") THEN session_state["messages"]
                        ELSE <<Greeting>>
            IN IF prompt # NoPrompt
               THEN /\ session_state' =
                         SetItem(session_state, "messages",
                                 Append(msgs, ChatMessage("user", Text(prompt))))
                    /\ ui' = Append(ui, Shown("user", Text(prompt)))
                    /\ pc' = "hq_begin"
               ELSE /\ session_state' = SetItem(session_state, "messages", msgs)
                    /\ ui' = ui
                    /\ pc' = "done"
       ELSE /\ session_state' = session_state
            /\ ui' = ui
            /\ pc' = "done"
    /\ UNCHANGED <<openai_api_key, uploaded_file, prompt, exc, calls,
                   file_name, extension, loader, documents, chunks, vector_store,
                   response, session_before>>
    /\ UNCHANGED streamVars

\* lines 110-124, up to the call of handle_question
CheckCrc ==
    /\ pc = "check_crc"
    /\ IF Has("crc")
       THEN IF prompt # NoPrompt
            THEN /\ session_state' =
                      SetItem(session_state, "messages",
                              <<Greeting, ChatMessage("user", Text(prompt))>>)
                 /\ ui' = Append(ui, Shown("user", Text(prompt)))
                 /\ pc' = "hq_begin"
            ELSE /\ session_state' = SetItem(session_state, "messages", <<Greeting>>)
                 /\ ui' = ui
                 /\ pc' = "done"
       ELSE /\ session_state' = session_state
            /\ ui' = ui
            /\ pc' = "done"
    /\ UNCHANGED <<openai_api_key, uploaded_file, prompt, exc, calls,
                   file_name, extension, loader, documents, chunks, vector_store,
                   response, session_before>>
    /\ UNCHANGED streamVars

\* lines 131-133
HandleQuestionBegin ==
    /\ pc = "hq_begin"
    /\ session_state' = IF Has("history") THEN session_state
                        ELSE SetItem(session_state, "history", <<>>)
    /\ pc' = "crc_run"
    /\ UNCHANGED <<openai_api_key, uploaded_file, prompt, exc, calls, ui,
                   file_name, extension, loader, documents, chunks, vector_store,
                   response, session_before>>
    /\ UNCHANGED streamVars

\* lines 135-141
RunChain ==
    /\ pc = "crc_run"
    /\ response' = CrcRun(session_state["crc"], prompt, session_state["history"])
    /\ calls' = Append(calls, "crc.run")
    /\ pc' = "append"
    /\ UNCHANGED <<session_state, openai_api_key, uploaded_file, prompt, exc,
                   ui, file_name, extension, loader, documents, chunks, vector_store,
                   session_before>>
    /\ UNCHANGED streamVars

\* 'for msg in st.session_state.messages: st.chat_message(msg.role).write(msg.content)'
RECURSIVE ShowAll(_)
ShowAll(msgs) ==
    IF msgs = <<>> THEN <<>>
    ELSE <<Shown(Head(msgs).role, Head(msgs).content)>> \o ShowAll(Tail(msgs))

\* a buggy variant: the new pair is put in front
AppendPair_Prepend(history, pair) == <<pair>> \o history

\* list.append on st.session_state["history"]
AppendPair(history, pair) == Append(history, pair)

\* lines 143-146
AppendHistory ==
    /\ pc = "append"
    /\ session_state' =
         [session_state EXCEPT
            !["history"] = AppendPair(session_state["history"], <<prompt, response>>)]
    /\ ui' = ui \o ShowAll(session_state["messages"])
    /\ pc' = "invoke"
    /\ UNCHANGED <<openai_api_key, uploaded_file, prompt, exc, calls,
                   file_name, extension, loader, documents, chunks, vector_store,
                   response, session_before>>
    /\ UNCHANGED streamVars

\* lines 148-158: the streaming model call on the messages, and the reply kept
Invoke ==
    /\ pc = "invoke"
    /\ response' = LlmInvoke(openai_api_key, session_state["messages"])
    /\ session_state' =
         [session_state EXCEPT
            !["messages"] = Append(session_state["messages"],
                                   ChatMessage("assistant", response'))]
    /\ ui' = Append(ui, Shown("assistant", response'))
    /\ calls' = Append(calls, "llm.invoke")
    /\ pc' = "done"
    /\ UNCHANGED <<openai_api_key, uploaded_file, prompt, exc,
                   file_name, extension, loader, documents, chunks, vector_store,
                   session_before>>
    /\ UNCHANGED streamVars

\* the calls of a run that do I/O or reach the hosted API and may raise; the
\* script catches nothing, so the run ends there
RaisingCalls == {"write", "load", "split", "embed", "crc_run", "invoke"}

Raise ==
    /\ pc \in RaisingCalls
    /\ exc' = pc
    /\ pc' = "raised"
    /\ UNCHANGED <<session_state, openai_api_key, uploaded_file, prompt,
                   calls, ui, file_name, extension, loader, documents, chunks,
                   vector_store, response, session_before>>
    /\ UNCHANGED streamVars

----------------------------------------------------------------------------
(* StreamHandler, lines 23-30 *)

\* a buggy variant: the text is replaced by the token instead of extended
on_llm_new_token_Replace(token) ==
    /\ pc = "streaming"
    /\ Len(tokens) < MaxTokens
    /\ text' = token
    /\ container' = Append(container, text')
    /\ tokens' = Append(tokens, token)
    /\ initial_text' = initial_text
    /\ UNCHANGED appVars

\* lines 28-30; the model client calls it once per streamed token
on_llm_new_token(token) ==
    /\ pc = "streaming"
    /\ Len(tokens) < MaxTokens
    /\ text' = text \o token
    /\ container' = Append(container, text')
    /\ tokens' = Append(tokens, token)
    /\ initial_text' = initial_text
    /\ UNCHANGED appVars

\* lines 24-26: StreamHandler(container, initial_text), before any token
InitStream ==
    /\ session_state = <<>>
    /\ openai_api_key = <<>>
    /\ uploaded_file = NoFile
    /\ prompt = NoPrompt
    /\ pc = "streaming"
    /\ exc = NoExc
    /\ calls = <<>>
    /\ ui = <<>>
    /\ file_name = <<>>
    /\ extension = <<>>
    /\ loader = NoLoader
    /\ documents = None
    /\ chunks = None
    /\ vector_store = None
    /\ response = None
    /\ session_before = <<>>
    /\ initial_text \in InitialTexts
    /\ text = initial_text
    /\ container = <<>>
    /\ tokens = <<>>

NextStream == \E token \in TokenSet : on_llm_new_token(token)

SpecStream == InitStream /\ [][NextStream]_vars

----------------------------------------------------------------------------
Next ==
    \/ Rerun
    \/ WriteFile
    \/ PickLoader
    \/ Load
    \/ Split
    \/ EmbedStore
    \/ InitChat
    \/ CheckCrc
    \/ HandleQuestionBegin
    \/ RunChain
    \/ AppendHistory
    \/ Invoke
    \/ Raise

Spec == Init /\ [][Next]_vars

TypeOK == pc \in {"idle", "write", "pick", "load", "split", "embed", "init_chat",
                  "check_crc", "hq_begin", "crc_run", "append", "invoke",
                  "done", "raised", "streaming"}

----------------------------------------------------------------------------
(* Vocabulary of the properties *)

InCalls(c) == \E i \in 1..Len(calls) : calls[i] = c

ShownIn(x) == \E i \in 1..Len(ui) : ui[i] = x

IsPrefix(s, t) == /\ Len(s) <= Len(t)
                  /\ SubSeq(t, 1, Len(s)) = s

SupportedExtensions == {Ext_pdf, Ext_docx, Ext_txt}

FilePresent == uploaded_file # NoFile

ValidKey == StartsWith(openai_api_key, Str_sk)

RunEnded == pc \in {"done", "raised"}

\* the history of (question, answer) pairs a session state holds, empty if absent
HistoryOf(s) == IF "history" \in DOMAIN s THEN s["history"] ELSE <<>>

SameCrc(s, t) ==
    /\ ("crc" \in DOMAIN s) = ("crc" \in DOMAIN t)
    /\ "crc" \in DOMAIN s => s["crc"] = t["crc"]

\* the file a chain's vector store was built from, and the loader that read it
FileOfChain(crc) == crc.retriever.chunks.documents.file_name

LoaderOfChain(crc) == crc.retriever.chunks.documents.loader

\* str concatenation of a list of strings
RECURSIVE Concat(_)
Concat(ts) == IF ts = <<>> THEN <<>> ELSE Head(ts) \o Concat(Tail(ts))

----------------------------------------------------------------------------
(* C1: a file whose os.path.splitext extension is not exactly .pdf, .docx  *)
(* or .txt gets the 'not supported' message once load_and_process_file has *)
(* looked at the extension; no loader is created, nothing is loaded,       *)
(* split, embedded or stored, the function's result is None, and the run   *)
(* builds no chain, leaves session_state.crc as it was and shows no        *)
(* success message.                                                        *)
C1_UnsupportedHalts ==
    (FilePresent /\ splitext(uploaded_file)[2] \notin SupportedExtensions) =>
        /\ InCalls("pick") => ShownIn(NotSupported)
        /\ loader = NoLoader
        /\ ~InCalls("load") /\ ~InCalls("split") /\ ~InCalls("embed")
        /\ documents = None /\ chunks = None /\ vector_store = None
        /\ ~InCalls("chain")
        /\ SameCrc(session_state, session_before)
        /\ ~ShownIn(Success)

\* an unsupported file went through load_and_process_file while a chain of
\* an earlier run was in session state
C1_Witness ==
    /\ pc = "done"
    /\ FilePresent
    /\ splitext(uploaded_file)[2] = <<".", "PDF">>
    /\ InCalls("pick")
    /\ ShownIn(NotSupported)
    /\ Has("crc")

(* C2: after a run in which a file with extension .txt is in the uploader  *)
(* and the load, split, embed and store calls were made and returned,      *)
(* session_state has the key 'crc' and it holds the chain built by the     *)
(* text loader from that file with the key of this run.                    *)
C2_TxtPopulatesCrc ==
    (/\ RunEnded
     /\ FilePresent
     /\ splitext(uploaded_file)[2] = Ext_txt
     /\ InCalls("embed")) =>
        /\ Has("crc")
        /\ FileOfChain(session_state["crc"]) = <<".", "/">> \o uploaded_file
        /\ LoaderOfChain(session_state["crc"]) = "TextLoader"
        /\ session_state["crc"].retriever = vector_store
        /\ session_state["crc"].llm.openai_api_key = openai_api_key

\* a .txt upload replaced the chain of another document
C2_Witness ==
    /\ pc = "done"
    /\ uploaded_file = <<"a", ".", "txt">>
    /\ InCalls("embed")
    /\ "crc" \in DOMAIN session_before
    /\ Has("crc")
    /\ session_state["crc"] # session_before["crc"]

(* C3: the assistant message appended to session_state.messages for a      *)
(* question is the retrieval chain's response for that question, the one   *)
(* recorded for it in history.                                             *)
C3_AnswerIsChainResponse ==
    (pc = "done" /\ InCalls("llm.invoke")) =>
        LET msgs == session_state["messages"]
            h == session_state["history"]
        IN msgs[Len(msgs)].content = h[Len(h)][2]

(* C4: the calls of one run are a strict sequence: write, pick, load,      *)
(* split, embed/store, chain into session state, and only then crc.run     *)
(* and the model call; each step runs on the result of its predecessor,    *)
(* and an embedding or a chain is only made for a file whose loader was    *)
(* selected.                                                               *)
UploadSteps == <<"write", "pick", "load", "split", "embed", "chain">>

QuestionSteps == <<"crc.run", "llm.invoke">>

C4_StrictSequence ==
    /\ \E k \in 0..Len(UploadSteps), j \in 0..Len(QuestionSteps) :
          /\ calls = SubSeq(UploadSteps, 1, k) \o SubSeq(QuestionSteps, 1, j)
          /\ j > 0 => \/ k = Len(UploadSteps)
                      \/ k = 0
                      \/ k = 2 /\ loader = NoLoader
    /\ InCalls("pick") => file_name = <<".", "/">> \o uploaded_file
    /\ InCalls("load") => loader # NoLoader /\ documents = LoadDocuments(loader, file_name)
    /\ InCalls("split") => chunks.documents = documents
    /\ InCalls("embed") => vector_store.chunks = chunks
    /\ InCalls("chain") => Has("crc") /\ session_state["crc"].retriever = vector_store
    /\ InCalls("crc.run") => /\ Has("crc")
                             /\ LoaderOfChain(session_state["crc"]) # NoLoader

\* a run processed an upload completely and then answered a question
C4_Witness ==
    /\ pc = "done"
    /\ calls = UploadSteps \o QuestionSteps

(* C5: a call that raises ends the run and leaves session state as it was  *)
(* before that call: a failure while the file is written, loaded, split or *)
(* embedded leaves crc (all of session state) as the run found it and no   *)
(* success message is shown; a failure of crc.run leaves the history       *)
(* pairs as the run found them and messages without an assistant reply;    *)
(* a failure of the streaming call leaves messages without the reply.      *)
C5_AfterFailure ==
    pc = "raised" =>
        /\ exc \in {"write", "load", "split", "embed"} =>
              /\ session_state = session_before
              /\ ~ShownIn(Success)
        /\ exc = "crc_run" =>
              /\ session_state["history"] = HistoryOf(session_before)
              /\ session_state["messages"] = <<Greeting, ChatMessage("user", Text(prompt))>>
        /\ exc = "invoke" =>
              /\ session_state["messages"] = <<Greeting, ChatMessage("user", Text(prompt))>>

C5_FailurePropagates ==
    [][pc' = "raised" => (pc # "raised" /\ session_state' = session_state /\ C5_AfterFailure')]_vars

\* the embedding of a new upload failed while an older chain was in session
\* state, and in another run crc.run failed with pairs already in history
C5_Witness ==
    /\ pc = "raised"
    /\ \/ exc = "embed" /\ Has("crc")
       \/ exc = "crc_run" /\ Len(session_state["history"]) > 0

(* C6: in a run whose key is empty or does not start with 'sk-' nothing is *)
(* written or processed and no call to the hosted API is made, whatever    *)
(* session state holds.                                                    *)
C6_NoKeyNoCalls == ~ValidKey => calls = <<>>

(* C7: handle_question creates history as [] if absent, calls the chain    *)
(* with the history as it stood, and appends exactly the pair (question,   *)
(* chain response) at the end; earlier pairs keep content and order.       *)
HistoryAppended ==
    \/ pc \in {"invoke", "done"} /\ InCalls("crc.run")
    \/ pc = "raised" /\ exc = "invoke"

C7_HistoryAppend ==
    /\ pc \in {"crc_run", "append"} =>
          /\ Has("history")
          /\ session_state["history"] = HistoryOf(session_before)
    /\ pc = "append" => response.chat_history = HistoryOf(session_before)
    /\ HistoryAppended =>
          LET before == HistoryOf(session_before)
              resp == CrcRun(session_state["crc"], prompt, before)
          IN session_state["history"] = before \o << <<prompt, resp>> >>

\* a second question was answered: the pair went behind the first one
C7_Witness ==
    /\ HistoryAppended
    /\ Len(HistoryOf(session_before)) = 1
    /\ Len(session_state["history"]) = 2
    /\ session_state["history"][1][1] # session_state["history"][2][1]

(* C8: after tokens t1..tn, StreamHandler.text is initial_text followed by *)
(* t1..tn in arrival order, the container was rendered once per token with *)
(* the text as it then was, and each rendered value is a prefix of the     *)
(* next.                                                                   *)
C8_Cumulative ==
    /\ text = initial_text \o Concat(tokens)
    /\ Len(container) = Len(tokens)
    /\ \A i \in 1..Len(container) :
          container[i] = initial_text \o Concat(SubSeq(tokens, 1, i))
    /\ \A i \in 1..(Len(container) - 1) : IsPrefix(container[i], container[i+1])
    /\ container # <<>> => container[Len(container)] = text

\* two different non-empty tokens arrived after a non-empty initial text
C8_Witness ==
    /\ initial_text # <<>>
    /\ Len(tokens) >= 2
    /\ tokens[1] # <<>> /\ tokens[2] # <<>> /\ tokens[1] # tokens[2]
    /\ Len(text) > Len(initial_text) + 1

(* C9: every run that finds 'crc' in session state resets messages to the  *)
(* greeting before it handles a prompt: messages starts with the greeting, *)
(* has at most 3 entries, and the list given to the streaming model call   *)
(* is the greeting and the current question only.                          *)
C9_MessagesReset ==
    /\ Has("messages") =>
          /\ Len(session_state["messages"]) \in 1..3
          /\ session_state["messages"][1] = Greeting
    /\ (pc = "done" /\ Has("crc")) =>
          /\ Has("messages")
          /\ prompt = NoPrompt => session_state["messages"] = <<Greeting>>
    /\ pc = "invoke" =>
          session_state["messages"] = <<Greeting, ChatMessage("user", Text(prompt))>>
    /\ InCalls("llm.invoke") =>
          response.messages = <<Greeting, ChatMessage("user", Text(prompt))>>

\* a later question is sent to the model after an earlier one was answered
C9_Witness ==
    /\ pc = "done"
    /\ InCalls("llm.invoke")
    /\ Len(session_state["history"]) = 2
    /\ session_state["history"][1][1] # prompt

(* C10: no step removes or shortens history or removes 'crc'; history only *)
(* grows by appends; and a question asked in a run that replaced the chain *)
(* goes to the new chain with the whole history gathered before.           *)
C10_QuestionAfterReplace ==
    (InCalls("chain") /\ InCalls("crc.run")) =>
        /\ response.crc.retriever = vector_store
        /\ response.chat_history = HistoryOf(session_before)

C10_HistoryAndCrcKept ==
    [][/\ Has("crc") => "crc" \in DOMAIN session_state'
       /\ Has("history") =>
             /\ "history" \in DOMAIN session_state'
             /\ IsPrefix(session_state["history"], session_state'["history"])
             /\ Len(session_state'["history"]) <= Len(session_state["history"]) + 1
       /\ pc' = "append" => C10_QuestionAfterReplace'
      ]_vars

\* a question was put to the chain of a new document together with a pair
\* answered by the chain of another document
C10_Witness ==
    /\ pc = "append"
    /\ InCalls("chain")
    /\ Len(response.chat_history) > 0
    /\ response.chat_history[1][2].crc # response.crc
    /\ FileOfChain(response.chat_history[1][2].crc) # FileOfChain(response.crc)

====
